---------------------------- MODULE Spec2Model ----------------------------
(***************************************************************************)
(* A model of the rv-emu instruction core: the instruction decoder         *)
(* (machine/cpu/constants.rs), the memory bus (machine/memory/mod.rs), the *)
(* CPU cycle (machine/cpu/mod.rs), the Machine (machine/mod.rs) and the    *)
(* front-end's step/run handlers (main.rs).                                *)
(*                                                                         *)
(* A u32 is kept as a record [hi, lo] of two 16-bit halves, its value      *)
(* being hi * 65536 + lo, so that every 32-bit value is representable and  *)
(* the wrap-around of the code's arithmetic is computed, not assumed.      *)
(***************************************************************************)
EXTENDS Integers, Sequences, FiniteSets, TLC

(***************************************************************************)
(* 32-bit words                                                            *)
(***************************************************************************)

\* 2^16, the radix of the two halves of a u32.
Half == 65536

\* pub type XLENType = u32: the word with halves hi and lo.
W(hi, lo) == [hi |-> hi, lo |-> lo]

\* A literal n (0 <= n < 2^31) as a u32.
U32(n) == W(n \div Half, n % Half)

\* 0xffffffff
AllOnes == W(Half - 1, Half - 1)

\* The number a word holds, for words below 2^31.
AsNat(w) == w.hi * Half + w.lo

\* w < n for a number n < 2^31 (the code's comparisons of a u32/usize with a
\* length or a base address).
Lt(w, n) == w.hi < 32768 /\ AsNat(w) < n

\* 2^n
RECURSIVE Pow2(_)
Pow2(n) == IF n = 0 THEN 1 ELSE 2 * Pow2(n - 1)

\* a & b on numbers below 2^bits.
RECURSIVE BitAnd(_, _, _)
BitAnd(a, b, bits) ==
    IF bits = 0 THEN 0
    ELSE (IF a % 2 = 1 /\ b % 2 = 1 THEN 1 ELSE 0)
         + 2 * BitAnd(a \div 2, b \div 2, bits - 1)

\* a | b on numbers below 2^bits.
RECURSIVE BitOr(_, _, _)
BitOr(a, b, bits) ==
    IF bits = 0 THEN 0
    ELSE (IF a % 2 = 1 \/ b % 2 = 1 THEN 1 ELSE 0)
         + 2 * BitOr(a \div 2, b \div 2, bits - 1)

\* x & y on u32.
WAnd(x, y) == W(BitAnd(x.hi, y.hi, 16), BitAnd(x.lo, y.lo, 16))

\* x | y on u32.
WOr(x, y) == W(BitOr(x.hi, y.hi, 16), BitOr(x.lo, y.lo, 16))

\* !x on u32.
WNot(x) == W(Half - 1 - x.hi, Half - 1 - x.lo)

\* x >> n on u32 (logical), 0 <= n < 32.
WShr(x, n) ==
    IF n >= 16 THEN W(0, x.hi \div Pow2(n - 16))
    ELSE W(x.hi \div Pow2(n),
           (x.lo \div Pow2(n)) + (x.hi % Pow2(n)) * Pow2(16 - n))

\* x << n on u32, bits shifted past bit 31 dropped, 0 <= n < 32.
WShl(x, n) ==
    IF n >= 16 THEN W((x.lo % Pow2(32 - n)) * Pow2(n - 16), 0)
    ELSE W(((x.hi % Pow2(16 - n)) * Pow2(n)) + (x.lo \div Pow2(16 - n)),
           (x.lo % Pow2(16 - n)) * Pow2(n))

\* (x as i32 >> n) as u32: the arithmetic shift, which copies bit 31 into the
\* n vacated bits.
WSar(x, n) ==
    IF x.hi >= 32768 THEN WOr(WShr(x, n), WNot(WShr(AllOnes, n)))
    ELSE WShr(x, n)

\* u32::saturating_add in place of wrapping_add: 0xffffffff on overflow.
SaturatingAdd(a, b) ==
    LET lo == a.lo + b.lo
        hi == a.hi + b.hi + (lo \div Half)
    IN  IF hi >= Half THEN AllOnes ELSE W(hi, lo % Half)

\* u32::wrapping_add
WrappingAdd(a, b) ==
    LET lo == a.lo + b.lo
    IN  W((a.hi + b.hi + (lo \div Half)) % Half, lo % Half)

\* u32::wrapping_sub
WrappingSub(a, b) ==
    LET borrow == IF a.lo < b.lo THEN 1 ELSE 0
    IN  W((a.hi - b.hi - borrow + Half) % Half, (a.lo - b.lo + Half) % Half)

(***************************************************************************)
(* machine/memory/constants.rs                                             *)
(***************************************************************************)

\* pub const MEMORY_SIZE: usize = 4 * (1 << 10)
MEMORY_SIZE == 4096

\* pub const RAM_BASE: usize = 0x80
RAM_BASE == 128

(***************************************************************************)
(* machine/cpu/constants.rs: the instruction decoder                       *)
(***************************************************************************)

\* decode_source_registers: (rs1, rs2)
decode_source_registers(raw_instruction) ==
    << AsNat(WAnd(WShr(raw_instruction, 15), U32(31))),
       AsNat(WAnd(WShr(raw_instruction, 20), U32(31))) >>

\* decode_destination_register: rd
decode_destination_register(raw_instruction) ==
    AsNat(WAnd(WShr(raw_instruction, 7), U32(31)))

\* The mask decode_functs applies to raw_instruction >> 25: 0x3F.
Funct7Mask == 63

\* decode_functs: (funct3, funct7)
decode_functs(raw_instruction) ==
    << AsNat(WAnd(WShr(raw_instruction, 12), U32(7))),
       AsNat(WAnd(WShr(raw_instruction, 25), U32(Funct7Mask))) >>

\* ITypeImm with the 12-bit field zero-extended: a logical shift in place of
\* the arithmetic one.
ITypeImmZeroExtended(value) == WShr(WAnd(value, W(65520, 0)), 20)

\* The I-type immediate: ((value & 0xfff00000) as i32 >> 20) as u32
ITypeImm(value) == WSar(WAnd(value, W(65520, 0)), 20)

\* The S-type immediate:
\* (((value & 0xfe000000) as i32 as i64 >> 20) as u32) | ((value >> 7) & 0x1f)
STypeImm(value) ==
    WOr(WSar(WAnd(value, W(65024, 0)), 20), WAnd(WShr(value, 7), U32(31)))

\* Instruction::try_from.  The result is the decoded instruction (kind "I",
\* "S" or "R"), the error DecodeError::OpcodeZero (kind "OpcodeZero"), or the
\* abort of unimplemented!() (kind "panic").
TryFrom(value) ==
    LET opcode == AsNat(WAnd(value, U32(127)))
        regs   == decode_source_registers(value)
        functs == decode_functs(value)
    IN  CASE opcode \in {3, 19} ->
               [kind |-> "I", opcode |-> opcode,
                rd |-> decode_destination_register(value),
                rs1 |-> regs[1], imm |-> ITypeImm(value), funct3 |-> functs[1]]
          [] opcode = 35 ->
               [kind |-> "S", opcode |-> opcode, rs1 |-> regs[1],
                rs2 |-> regs[2], imm |-> STypeImm(value), funct3 |-> functs[1]]
          [] opcode = 51 ->
               [kind |-> "R", opcode |-> opcode,
                rd |-> decode_destination_register(value),
                rs1 |-> regs[1], rs2 |-> regs[2],
                funct3 |-> functs[1], funct7 |-> functs[2]]
          [] opcode = 0 -> [kind |-> "OpcodeZero"]
          [] OTHER -> [kind |-> "panic"]

(***************************************************************************)
(* machine/memory/mod.rs: Memory and MemoryBus                             *)
(*                                                                         *)
(* Memory.contents is a Vec<u8>, modelled as a sequence of bytes: the byte *)
(* at the code's index i is contents[i + 1].  The result of a bus access   *)
(* has tag "Ok", tag "Err" (MemoryError::UnsupportedAddressingSize) or tag *)
(* "panic" (todo!(), or an index outside the Vec).                         *)
(***************************************************************************)

\* Resize that only grows the Vec: a longer one is not truncated.
ResizeGrowing(vec, new_len, value) ==
    [i \in 1..(IF Len(vec) > new_len THEN Len(vec) ELSE new_len) |->
        IF i <= Len(vec) THEN vec[i] ELSE value]

\* Vec::resize(new_len, value) on a Vec<u8>.
Resize(vec, new_len, value) ==
    [i \in 1..new_len |-> IF i <= Len(vec) THEN vec[i] ELSE value]

\* Memory::new
MemoryNew(memory_dump) == Resize(memory_dump, MEMORY_SIZE, 0)

\* Memory::size
Size(contents) == Len(contents)

\* index + k is an index of the Vec (the bounds check of contents[index + k]).
InVec(contents, index, k) == Lt(WrappingAdd(index, U32(k)), Len(contents))

\* contents[index + k], for an index of the Vec.
ByteAt(contents, index, k) == contents[AsNat(index) + k + 1]

\* MemoryBus::load8
Load8(contents, address) ==
    LET index == WrappingSub(address, U32(RAM_BASE))
    IN  IF InVec(contents, index, 0)
        THEN [tag |-> "Ok", value |-> U32(ByteAt(contents, index, 0))]
        ELSE [tag |-> "panic", value |-> U32(0)]

\* Load32 assembling the four bytes most significant first.
Load32BigEndian(contents, address) ==
    LET index == WrappingSub(address, U32(RAM_BASE))
    IN  IF \A k \in 0..3 : InVec(contents, index, k)
        THEN [tag |-> "Ok",
              value |-> WOr(WOr(U32(ByteAt(contents, index, 3)),
                                WShl(U32(ByteAt(contents, index, 2)), 8)),
                            WOr(WShl(U32(ByteAt(contents, index, 1)), 16),
                                WShl(U32(ByteAt(contents, index, 0)), 24)))]
        ELSE [tag |-> "panic", value |-> U32(0)]

\* MemoryBus::load32
Load32(contents, address) ==
    LET index == WrappingSub(address, U32(RAM_BASE))
    IN  IF \A k \in 0..3 : InVec(contents, index, k)
        THEN [tag |-> "Ok",
              value |-> WOr(WOr(U32(ByteAt(contents, index, 0)),
                                WShl(U32(ByteAt(contents, index, 1)), 8)),
                            WOr(WShl(U32(ByteAt(contents, index, 2)), 16),
                                WShl(U32(ByteAt(contents, index, 3)), 24)))]
        ELSE [tag |-> "panic", value |-> U32(0)]

\* Load without the test of the reserved region: an address below RAM_BASE
\* reads the Vec at the index address.
LoadBelowBase(contents, address, size) ==
    LET anywhere == IF Lt(address, RAM_BASE)
                    THEN WrappingAdd(address, U32(RAM_BASE)) ELSE address
    IN  CASE size = 8  -> Load8(contents, anywhere)
          [] size = 16 -> [tag |-> "panic", value |-> U32(0)]
          [] size = 32 -> Load32(contents, anywhere)
          [] size = 64 -> [tag |-> "panic", value |-> U32(0)]
          [] OTHER     -> [tag |-> "Err", value |-> U32(0)]

\* MemoryBus::load
Load(contents, address, size) ==
    IF ~Lt(address, RAM_BASE)
    THEN CASE size = 8  -> Load8(contents, address)
           [] size = 16 -> [tag |-> "panic", value |-> U32(0)]
           [] size = 32 -> Load32(contents, address)
           [] size = 64 -> [tag |-> "panic", value |-> U32(0)]
           [] OTHER     -> [tag |-> "Err", value |-> U32(0)]
    ELSE [tag |-> "panic", value |-> U32(0)]

\* Store32From writing the bytes of value most significant first.
RECURSIVE Store32FromSwapped(_, _, _, _)
Store32FromSwapped(contents, index, value, k) ==
    IF k > 3 THEN [tag |-> "Ok", contents |-> contents]
    ELSE IF InVec(contents, index, k)
         THEN Store32FromSwapped(
                  [contents EXCEPT ![AsNat(index) + k + 1] =
                      AsNat(WAnd(WShr(value, 8 * (3 - k)), U32(255)))],
                  index, value, k + 1)
         ELSE [tag |-> "panic", contents |-> contents]

\* The k-th assignment of store32 and those after it:
\* contents[index + k] = ((value >> 8k) & 0xff) as u8, each one bounds-checked
\* when it runs, so the assignments before a failing one have taken effect.
RECURSIVE Store32From(_, _, _, _)
Store32From(contents, index, value, k) ==
    IF k > 3 THEN [tag |-> "Ok", contents |-> contents]
    ELSE IF InVec(contents, index, k)
         THEN Store32From(
                  [contents EXCEPT ![AsNat(index) + k + 1] =
                      AsNat(WAnd(WShr(value, 8 * k), U32(255)))],
                  index, value, k + 1)
         ELSE [tag |-> "panic", contents |-> contents]

\* Store32 indexing the Vec by the address itself, RAM_BASE not subtracted.
Store32AtAddress(contents, address, value) ==
    Store32From(contents, address, value, 0)

\* MemoryBus::store32
Store32(contents, address, value) ==
    Store32From(contents, WrappingSub(address, U32(RAM_BASE)), value, 0)

\* Store rounding a width it does not know up to 32 bits.
StoreRoundingWidth(contents, address, size, value) ==
    IF ~Lt(address, RAM_BASE)
    THEN CASE size = 8  -> [tag |-> "panic", contents |-> contents]
           [] size = 16 -> [tag |-> "panic", contents |-> contents]
           [] size = 64 -> [tag |-> "panic", contents |-> contents]
           [] OTHER     -> Store32(contents, address, value)
    ELSE [tag |-> "panic", contents |-> contents]

\* MemoryBus::store
Store(contents, address, size, value) ==
    IF ~Lt(address, RAM_BASE)
    THEN CASE size = 8  -> [tag |-> "panic", contents |-> contents]
           [] size = 16 -> [tag |-> "panic", contents |-> contents]
           [] size = 32 -> Store32(contents, address, value)
           [] size = 64 -> [tag |-> "panic", contents |-> contents]
           [] OTHER     -> [tag |-> "Err", contents |-> contents]
    ELSE [tag |-> "panic", contents |-> contents]

(***************************************************************************)
(* machine/cpu/mod.rs: the CPU                                             *)
(*                                                                         *)
(* What a phase or a cycle returns: "Ok", the error "Err(Fetch)"           *)
(* (CpuError::Fetch(FetchError::Memory(_))), "Err(Decode(OpcodeZero))",    *)
(* "Err(Execute)" (CpuError::Execute(ExecuteError::Memory(_))), or "panic" *)
(* when the call does not return (unimplemented!(), todo!(), an index out  *)
(* of the Vec, an overflow check).                                         *)
(***************************************************************************)

\* SignExtend8 without the sign: val as u32, as lbu converts.
ZeroExtend8(val) == val

\* val as i8 as i32 as u32, for a loaded byte val
SignExtend8(val) == IF val.lo >= 128 THEN W(Half - 1, 65280 + val.lo) ELSE val

\* The load instructions of Cpu::execute (opcode 0x03).
ExecuteLoad(instruction, registers, contents) ==
    LET address == WrappingAdd(registers[instruction.rs1], instruction.imm)
        size    == CASE instruction.funct3 \in {0, 4} -> 8
                     [] instruction.funct3 \in {1, 5} -> 16
                     [] OTHER -> 32
        loaded  == Load(contents, address, size)
        result  == IF instruction.funct3 = 0 THEN SignExtend8(loaded.value)
                   ELSE loaded.value
    IN  IF instruction.funct3 \notin {0, 1, 2, 4, 5}
        THEN [out |-> "Ok", registers |-> registers, contents |-> contents]
        ELSE CASE loaded.tag = "Ok" ->
                    [out |-> "Ok",
                     registers |-> [registers EXCEPT ![instruction.rd] = result],
                     contents |-> contents]
               [] loaded.tag = "Err" ->
                    [out |-> "Err(Execute)", registers |-> registers,
                     contents |-> contents]
               [] OTHER ->
                    [out |-> "panic", registers |-> registers,
                     contents |-> contents]

\* The store instructions of Cpu::execute (opcode 0x23).
ExecuteStore(instruction, registers, contents) ==
    LET address == WrappingAdd(registers[instruction.rs1], instruction.imm)
        size    == CASE instruction.funct3 = 0 -> 8
                     [] instruction.funct3 = 1 -> 16
                     [] OTHER -> 32
        stored  == Store(contents, address, size, registers[instruction.rs2])
    IN  IF instruction.funct3 \notin {0, 1, 2}
        THEN [out |-> "Ok", registers |-> registers, contents |-> contents]
        ELSE [out |-> CASE stored.tag = "Ok" -> "Ok"
                        [] stored.tag = "Err" -> "Err(Execute)"
                        [] OTHER -> "panic",
              registers |-> registers, contents |-> stored.contents]

\* Cpu::execute
Execute(instruction, registers, contents) ==
    CASE instruction.kind = "I" /\ instruction.opcode = 3 ->
           ExecuteLoad(instruction, registers, contents)
      [] instruction.kind = "I" /\ instruction.opcode = 19 ->
           IF instruction.funct3 = 0
           THEN [out |-> "Ok",
                 registers |-> [registers EXCEPT ![instruction.rd] =
                     WrappingAdd(registers[instruction.rs1], instruction.imm)],
                 contents |-> contents]
           ELSE [out |-> "panic", registers |-> registers, contents |-> contents]
      [] instruction.kind = "R" /\ instruction.opcode = 51 ->
           CASE instruction.funct3 = 0 /\ instruction.funct7 = 0 ->
                  [out |-> "Ok",
                   registers |-> [registers EXCEPT ![instruction.rd] =
                       WrappingAdd(registers[instruction.rs1],
                                   registers[instruction.rs2])],
                   contents |-> contents]
             [] instruction.funct3 = 0 /\ instruction.funct7 = 32 ->
                  [out |-> "Ok",
                   registers |-> [registers EXCEPT ![instruction.rd] =
                       WrappingSub(registers[instruction.rs1],
                                   registers[instruction.rs2])],
                   contents |-> contents]
             [] OTHER ->
                  [out |-> "panic", registers |-> registers,
                   contents |-> contents]
      [] instruction.kind = "S" /\ instruction.opcode = 35 ->
           ExecuteStore(instruction, registers, contents)
      [] OTHER -> [out |-> "panic", registers |-> registers, contents |-> contents]

\* Cpu::fetch: memory_bus.load(self.pc as usize, 32)
Fetch(pc, contents) == Load(contents, pc, 32)

\* PcIncrement with the addition left out: the PC stays where it is.
PcIncrementStuck(pc) == {pc}

\* PcIncrement stepping by a halfword, the length of a compressed instruction.
PcIncrementHalfword(pc) == {WrappingAdd(pc, U32(2))}

\* self.pc += 4: the new PC.  Past 0xffffffff the addition overflows: a build
\* with overflow checks panics there (NoPc), a build without them wraps.
NoPc == W(-1, -1)
PcIncrement(pc) ==
    IF pc.hi = Half - 1 /\ pc.lo >= Half - 4
    THEN {NoPc, WrappingAdd(pc, U32(4))}
    ELSE {WrappingAdd(pc, U32(4))}

\* AdvanceWith recovering from the decode error: the word at pc4 is fetched,
\* decoded and executed in the same call, which still returns the error.
AdvanceWithSkipping(registers, pc, contents, pc4) ==
    LET zeroed  == [registers EXCEPT ![0] = U32(0)]
        fetched == Fetch(pc, contents)
        decoded == TryFrom(fetched.value)
        done    == Execute(decoded, zeroed, contents)
        next    == Fetch(pc4, contents)
        after   == TryFrom(next.value)
        redone  == Execute(after, zeroed, contents)
        Leave(out, rs, p, cs) ==
            [out |-> out, registers |-> rs, pc |-> p, contents |-> cs]
    IN  CASE fetched.tag = "panic" -> Leave("panic", zeroed, pc, contents)
          [] fetched.tag = "Err" -> Leave("Err(Fetch)", zeroed, pc, contents)
          [] pc4 = NoPc -> Leave("panic", zeroed, pc, contents)
          [] decoded.kind = "panic" -> Leave("panic", zeroed, pc4, contents)
          [] decoded.kind = "OpcodeZero" ->
               IF next.tag = "Ok" /\ after.kind \in {"I", "S", "R"}
                  /\ redone.out = "Ok"
               THEN Leave("Err(Decode(OpcodeZero))", redone.registers,
                          WrappingAdd(pc4, U32(4)), redone.contents)
               ELSE Leave("Err(Decode(OpcodeZero))", zeroed, pc4, contents)
          [] OTHER -> Leave(done.out, done.registers, pc4, done.contents)

\* Cpu::advance from the state (registers, pc, contents) with the PC
\* incremented to pc4: what it returns and the state it leaves.
AdvanceWith(registers, pc, contents, pc4) ==
    LET zeroed  == [registers EXCEPT ![0] = U32(0)]
        fetched == Fetch(pc, contents)
        decoded == TryFrom(fetched.value)
        done    == Execute(decoded, zeroed, contents)
        Leave(out, rs, p, cs) ==
            [out |-> out, registers |-> rs, pc |-> p, contents |-> cs]
    IN  CASE fetched.tag = "panic" -> Leave("panic", zeroed, pc, contents)
          [] fetched.tag = "Err" -> Leave("Err(Fetch)", zeroed, pc, contents)
          [] pc4 = NoPc -> Leave("panic", zeroed, pc, contents)
          [] decoded.kind = "panic" -> Leave("panic", zeroed, pc4, contents)
          [] decoded.kind = "OpcodeZero" ->
               Leave("Err(Decode(OpcodeZero))", zeroed, pc4, contents)
          [] OTHER -> Leave(done.out, done.registers, pc4, done.contents)

\* Cpu::advance: every outcome the cycle can have.
Advance(registers, pc, contents) ==
    {AdvanceWith(registers, pc, contents, pc4) : pc4 \in PcIncrement(pc)}

(***************************************************************************)
(* Memory images.  The front-end has rvasm assemble the editor's text into *)
(* a flat little-endian image (main.rs); a user of the library passes any  *)
(* Vec<u8> to Machine::new.  The images below are the inputs explored.     *)
(***************************************************************************)

\* The word with the given R-type fields: funct7 in bits [31:25], rs2 in
\* [24:20], rs1 in [19:15], funct3 in [14:12], rd in [11:7], opcode in [6:0].
EncR(opcode, rd, funct3, rs1, rs2, funct7) ==
    W(funct7 * 512 + rs2 * 16 + (rs1 \div 2),
      (rs1 % 2) * 32768 + funct3 * 4096 + rd * 128 + opcode)

\* The I-type word: the 12-bit immediate in bits [31:20].
EncI(opcode, rd, funct3, rs1, imm12) ==
    EncR(opcode, rd, funct3, rs1, imm12 % 32, imm12 \div 32)

\* The S-type word: imm[11:5] in bits [31:25], imm[4:0] in bits [11:7].
EncS(opcode, funct3, rs1, rs2, imm12) ==
    EncR(opcode, imm12 % 32, funct3, rs1, rs2, imm12 \div 32)

\* The four bytes of a word in the flat image, least significant first.
LeBytes(w) == << w.lo % 256, w.lo \div 256, w.hi % 256, w.hi \div 256 >>

\* The flat image of a program (a sequence of words).
RECURSIVE Assemble(_)
Assemble(program) ==
    IF program = << >> THEN << >>
    ELSE LeBytes(Head(program)) \o Assemble(Tail(program))

\* The fields the explored instruction words are built from.
Rds == {0, 1, 2, 16, 31}
Rs1s == {0, 1, 31}
Imm12s == {0, 1, 16, 2047, 2048, 4095}
Opcodes == {0, 3, 19, 35, 51, 55, 127}
Funct7s == {0, 4, 32, 64}

\* addi rd, rs1, imm
AddiWords == {EncI(19, rd, 0, rs1, imm) : rd \in Rds, rs1 \in Rs1s, imm \in Imm12s}

\* Words of every explored opcode, funct3 and funct7, with rd = x1 and
\* rs1 = rs2 = x0.
DispatchWords ==
    {EncR(op, 1, f3, 0, 0, f7) : op \in Opcodes, f3 \in 0..7, f7 \in Funct7s}

\* addi x0, x0, 5 ; addi x1, x0, 7
WriteX0Program == << EncI(19, 0, 0, 0, 5), EncI(19, 1, 0, 0, 7) >>

\* addi x1, x0, 2047 ; add x1, x1, x1 ; addi x2, x0, -1 ; sw x2, 128(x1) :
\* a store to address 4222, whose last two bytes lie outside the memory.
StoreAcrossEndProgram ==
    << EncI(19, 1, 0, 0, 2047), EncR(51, 1, 0, 1, 1, 0),
       EncI(19, 2, 0, 0, 4095), EncS(35, 2, 1, 2, 128) >>

\* addi x2, x0, 0x2A5 ; sb x2, 128(x0) ; addi x3, x0, 1
StoreByteProgram ==
    << EncI(19, 2, 0, 0, 677), EncS(35, 0, 0, 2, 128), EncI(19, 3, 0, 0, 1) >>

\* addi x2, x0, -2 ; sw x2, 256(x0) ; lw x3, 256(x0) ; lb x4, 256(x0) ;
\* lbu x5, 257(x0) ; sub x6, x0, x2 ; add x7, x2, x6
StoreLoadProgram ==
    << EncI(19, 2, 0, 0, 4094), EncS(35, 2, 0, 2, 256), EncI(3, 3, 2, 0, 256),
       EncI(3, 4, 0, 0, 256), EncI(3, 5, 4, 0, 257), EncR(51, 6, 0, 0, 2, 32),
       EncR(51, 7, 0, 2, 6, 0) >>

\* addi x1, x0, -1 ; lb x2, 129(x1) ; lbu x3, 129(x1) ; lb x4, 133(x1) ;
\* addi x6, x0, 2047 ; add x6, x6, x6 ; lb x5, 129(x6) ; lbu x7, 132(x1) ;
\* lb x8, 132(x1) : byte loads at addresses 128 and 132 (reached by wrapping
\* past 2^32), of the last byte of the memory (address 4223) and of the byte
\* 0xFF at address 131.
LoadByteProgram ==
    << EncI(19, 1, 0, 0, 4095), EncI(3, 2, 0, 1, 129), EncI(3, 3, 4, 1, 129),
       EncI(3, 4, 0, 1, 133), EncI(19, 6, 0, 0, 2047), EncR(51, 6, 0, 6, 6, 0),
       EncI(3, 5, 0, 6, 129), EncI(3, 7, 4, 1, 132), EncI(3, 8, 0, 1, 132) >>

\* add x1, x1, x1, n times: x1 shifted left by n.
Doublings(n) == [i \in 1..n |-> EncR(51, 1, 0, 1, 1, 0)]

\* x1 = 0x12345678, built from 0x12, 0x345 and 0x678 by addi and doublings ;
\* sw x1, 128(x0) ; lw x2, 128(x0) ; sw x1, 389(x0) ; lw x3, 389(x0)
StoreWordProgram ==
    << EncI(19, 1, 0, 0, 18) >> \o Doublings(12)
    \o << EncI(19, 1, 0, 1, 837) >> \o Doublings(12)
    \o << EncI(19, 1, 0, 1, 1656),
          EncS(35, 2, 0, 1, 128), EncI(3, 2, 2, 0, 128),
          EncS(35, 2, 0, 1, 389), EncI(3, 3, 2, 0, 389) >>

\* addi x1, x0, -1 ; addi x2, x0, 1 ; add x3, x1, x2 ; sub x4, x0, x2 ;
\* addi x5, x1, 1 ; add x7, x1, x1 ; sub x8, x2, x1 ; addi x9, x1, -1 ;
\* sub x10, x3, x1 : sums past 0xffffffff and differences below 0.
ArithmeticProgram ==
    << EncI(19, 1, 0, 0, 4095), EncI(19, 2, 0, 0, 1), EncR(51, 3, 0, 1, 2, 0),
       EncR(51, 4, 0, 0, 2, 32), EncI(19, 5, 0, 1, 1), EncR(51, 7, 0, 1, 1, 0),
       EncR(51, 8, 0, 2, 1, 32), EncI(19, 9, 0, 1, 4095),
       EncR(51, 10, 0, 3, 1, 32) >>

\* An all-zero word ; addi x1, x0, 7
ZeroThenAddiProgram == << U32(0), EncI(19, 1, 0, 0, 7) >>

\* The bytes the specification gives for its end-to-end scenario.
ScenarioImage == << 0, 1, 1, 19 >>

\* addi x1, x1, 1 in every word of the memory.
FullImage ==
    [i \in 1..MEMORY_SIZE |-> LeBytes(EncI(19, 1, 0, 1, 1))[((i - 1) % 4) + 1]]

\* addi x1, x1, 1 in every word of an image two words longer than the memory.
LongImage ==
    [i \in 1..(MEMORY_SIZE + 8) |->
        LeBytes(EncI(19, 1, 0, 1, 1))[((i - 1) % 4) + 1]]

\* An image of one byte: the word at the reset vector is addi x0, x0, 0.
OneByteImage == << 19 >>

Programs ==
    {<< w >> : w \in AddiWords \cup DispatchWords}
    \cup {WriteX0Program, StoreAcrossEndProgram, StoreByteProgram,
          StoreLoadProgram, LoadByteProgram, StoreWordProgram,
          ArithmeticProgram, ZeroThenAddiProgram}

Images ==
    {Assemble(p) : p \in Programs}
    \cup {<< >>, ScenarioImage, FullImage, LongImage, OneByteImage}

(***************************************************************************)
(* The state                                                               *)
(***************************************************************************)

VARIABLES
    registers,        \* Cpu.registers: x0..x31
    pc,               \* Cpu.pc
    contents,         \* Memory.contents
    has_reached_end,  \* MyApp.has_reached_end (main.rs)
    memory_dump,      \* the image the Machine was constructed from
    called,           \* the last call made from outside
    within,           \* "none", or the caller whose Cpu::reset is under way
    adv,              \* what the last Cpu::advance returned
    ret,              \* what the last finished call returned
    bus,              \* the last access made directly on a MemoryBus
    halted,           \* a Cpu::advance of this Cpu has returned OpcodeZero
    aborted,          \* the process has panicked
    cycles,           \* Cpu::advance calls since the Machine was constructed
    calls             \* calls made from outside

vars == << registers, pc, contents, has_reached_end, memory_dump, called,
           within, adv, ret, bus, halted, aborted, cycles, calls >>

machine == << registers, pc, contents >>

\* The calls explored from outside in one behaviour.
MaxCalls == 3

\* Machine::new passes this reset vector to Cpu::new: 0x80.
ResetVector == 128

NoAccess == [op |-> "none"]

\* CpuNew leaving the PC at 0, the reset vector not used.
CpuNewAtZero(reset_vector) ==
    [registers |-> [i \in 0..31 |-> U32(0)], pc |-> U32(0)]

\* Cpu::new
CpuNew(reset_vector) ==
    [registers |-> [i \in 0..31 |-> U32(0)], pc |-> U32(reset_vector)]

\* Machine::new
MachineNew(image) == [cpu |-> CpuNew(ResetVector), memory |-> MemoryNew(image)]

\* A Machine constructed from any of the images; nothing has been called.
Init ==
    /\ \E image \in Images :
          /\ registers = MachineNew(image).cpu.registers
          /\ pc = MachineNew(image).cpu.pc
          /\ contents = MachineNew(image).memory
          /\ memory_dump = image
    /\ has_reached_end = FALSE
    /\ called = "new"
    /\ within = "none"
    /\ adv = "none"
    /\ ret = "none"
    /\ bus = NoAccess
    /\ halted = FALSE
    /\ aborted = FALSE
    /\ cycles = 0
    /\ calls = 0

\* The state one Cpu::advance leaves, r being an outcome of Advance.
Cycle(r) ==
    /\ registers' = r.registers
    /\ pc' = r.pc
    /\ contents' = r.contents
    /\ adv' = r.out
    /\ cycles' = cycles + 1
    /\ halted' = (halted \/ r.out = "Err(Decode(OpcodeZero))")
    /\ aborted' = (r.out = "panic")

\* A call of Cpu::advance on the Machine's cpu and a bus over its memory.
AdvanceCall ==
    /\ ~aborted /\ within = "none" /\ calls < MaxCalls
    /\ \E r \in Advance(registers, pc, contents) :
          /\ Cycle(r)
          /\ ret' = IF r.out = "panic" THEN ret ELSE r.out
    /\ called' = "advance"
    /\ calls' = calls + 1
    /\ UNCHANGED << has_reached_end, memory_dump, within, bus >>

\* Machine::boot: enters Cpu::reset.
BootCall ==
    /\ ~aborted /\ within = "none" /\ calls < MaxCalls
    /\ within' = "boot"
    /\ called' = "boot"
    /\ calls' = calls + 1
    /\ UNCHANGED << machine, has_reached_end, memory_dump, adv, ret, bus,
                    halted, aborted, cycles >>

\* The condition of the loop of Cpu::reset:
\* self.pc < memory_bus.memory.size() as u32
ResetCondition(p, cs) == Lt(p, Size(cs))

\* Propagates letting the loop go on after the opcode-zero error.
PropagatesButOpcodeZero(out) == out \notin {"Ok", "Err(Decode(OpcodeZero))"}

\* self.advance(&mut memory_bus)? in Cpu::reset: whether the ? returns what
\* advance returned from reset.
Propagates(out) == out # "Ok"

\* Cpu::reset returns v to its caller.  Machine::boot passes it on; the
\* front-end's "Run until end" handler sets has_reached_end on the
\* opcode-zero error and logs any other.
ResetReturns(v) ==
    /\ within' = "none"
    /\ ret' = v
    /\ has_reached_end' =
          IF within = "run" /\ v = "Err(Decode(OpcodeZero))" THEN TRUE
          ELSE has_reached_end

\* One pass of the loop of Cpu::reset:
\* while self.pc < memory_bus.memory.size() as u32 { self.advance(..)?; }
ResetLoop ==
    /\ ~aborted /\ within \in {"boot", "run"}
    /\ IF ResetCondition(pc, contents)
       THEN \E r \in Advance(registers, pc, contents) :
               /\ Cycle(r)
               /\ IF r.out # "panic" /\ Propagates(r.out)
                  THEN ResetReturns(r.out)
                  ELSE UNCHANGED << within, ret, has_reached_end >>
       ELSE /\ ResetReturns("Ok")
            /\ UNCHANGED << machine, adv, halted, cycles, aborted >>
    /\ UNCHANGED << memory_dump, called, bus, calls >>

Next == AdvanceCall \/ BootCall \/ ResetLoop

Spec == Init /\ [][Next]_vars

(***************************************************************************)
(* A Machine whose Cpu was made by Cpu::new with a reset vector of the     *)
(* caller's choice (Cpu::new and the fields of Machine are public): the PC *)
(* starts below RAM_BASE, at it, at the last words of the memory or beyond *)
(* it.                                                                     *)
(***************************************************************************)

ResetVectors ==
    {0, RAM_BASE, MEMORY_SIZE - 4, RAM_BASE + MEMORY_SIZE - 8,
     RAM_BASE + MEMORY_SIZE - 4, RAM_BASE + MEMORY_SIZE - 2,
     RAM_BASE + MEMORY_SIZE}

VectorImages == {<< >>, FullImage, Assemble(ArithmeticProgram)}

VectorInit ==
    /\ \E image \in VectorImages, reset_vector \in ResetVectors :
          /\ registers = CpuNew(reset_vector).registers
          /\ pc = CpuNew(reset_vector).pc
          /\ contents = MemoryNew(image)
          /\ memory_dump = image
    /\ has_reached_end = FALSE
    /\ called = "new"
    /\ within = "none"
    /\ adv = "none"
    /\ ret = "none"
    /\ bus = NoAccess
    /\ halted = FALSE
    /\ aborted = FALSE
    /\ cycles = 0
    /\ calls = 0

VectorSpec == VectorInit /\ [][Next]_vars

(***************************************************************************)
(* Accesses made directly on a MemoryBus (its load and store are public).  *)
(***************************************************************************)

\* The addresses, widths and values of the explored accesses: below and at
\* RAM_BASE, an unaligned address, the last four bytes of the Vec, the first
\* address whose four bytes cross its end, and the top of the address space.
BusAddresses ==
    {U32(a) : a \in {0, RAM_BASE - 1, RAM_BASE, RAM_BASE + 5,
                     RAM_BASE + MEMORY_SIZE - 4, RAM_BASE + MEMORY_SIZE - 3,
                     RAM_BASE + MEMORY_SIZE}}
    \cup {AllOnes}
BusSizes == {8, 16, 24, 32, 64}
BusValues == {W(4660, 22136), AllOnes}

\* MemoryBus::store(address, size, value) on a bus over the Machine's memory.
BusStore ==
    /\ ~aborted /\ calls < MaxCalls
    /\ \E address \in BusAddresses, size \in BusSizes, value \in BusValues :
          LET stored == Store(contents, address, size, value)
          IN  /\ contents' = stored.contents
              /\ bus' = [op |-> "store", address |-> address, size |-> size,
                         value |-> value, tag |-> stored.tag]
              /\ aborted' = (stored.tag = "panic")
    /\ called' = "store"
    /\ calls' = calls + 1
    /\ UNCHANGED << registers, pc, has_reached_end, memory_dump, within, adv,
                    ret, halted, cycles >>

\* MemoryBus::load(address, size) on a bus over the Machine's memory.
BusLoad ==
    /\ ~aborted /\ calls < MaxCalls
    /\ \E address \in BusAddresses, size \in BusSizes :
          LET loaded == Load(contents, address, size)
          IN  /\ bus' = [op |-> "load", address |-> address, size |-> size,
                         value |-> loaded.value, tag |-> loaded.tag]
              /\ aborted' = (loaded.tag = "panic")
    /\ called' = "load"
    /\ calls' = calls + 1
    /\ UNCHANGED << machine, has_reached_end, memory_dump, within, adv, ret,
                    halted, cycles >>

\* The images of the memories the direct accesses start from.
BusImages == {<< >>, FullImage}

BusInit ==
    /\ \E image \in BusImages :
          /\ registers = MachineNew(image).cpu.registers
          /\ pc = MachineNew(image).cpu.pc
          /\ contents = MachineNew(image).memory
          /\ memory_dump = image
    /\ has_reached_end = FALSE
    /\ called = "new"
    /\ within = "none"
    /\ adv = "none"
    /\ ret = "none"
    /\ bus = NoAccess
    /\ halted = FALSE
    /\ aborted = FALSE
    /\ cycles = 0
    /\ calls = 0

BusNext == BusStore \/ BusLoad

BusSpec == BusInit /\ [][BusNext]_vars

(***************************************************************************)
(* The error conversions of machine/cpu/mod.rs.  A phase hands the error   *)
(* of a bus access to its caller through `?`, which applies From::from:    *)
(* MemoryError -> FetchError or ExecuteError -> CpuError.  The bus returns *)
(* an error only for an unsupported width, which the CPU never asks for,   *)
(* so the conversions are applied here to accesses of every width.         *)
(***************************************************************************)

\* MemoryError::UnsupportedAddressingSize
UnsupportedAddressingSize == "UnsupportedAddressingSize"

\* impl From<MemoryError> for FetchError
FetchErrorFrom(value) == [variant |-> "Memory", of |-> value]

\* impl From<MemoryError> for ExecuteError
ExecuteErrorFrom(value) == [variant |-> "Memory", of |-> value]

\* impl From<FetchError> for CpuError
CpuErrorFromFetchError(value) == [variant |-> "Fetch", of |-> value]

\* impl From<DecodeError> for CpuError
CpuErrorFromDecodeError(value) == [variant |-> "Decode", of |-> value]

\* CpuErrorFromExecuteError wrapping the error as that of the fetch phase.
CpuErrorFromExecuteErrorAsFetch(value) == [variant |-> "Fetch", of |-> value]

\* impl From<ExecuteError> for CpuError
CpuErrorFromExecuteError(value) == [variant |-> "Execute", of |-> value]

\* What Cpu::advance returns for what came back from the bus access of
\* Cpu::fetch: memory_bus.load(..)? in fetch, then self.fetch(..)? in advance.
FetchPhase(accessed) ==
    CASE accessed.tag = "Err" ->
           [tag |-> "Err",
            error |-> CpuErrorFromFetchError(
                          FetchErrorFrom(UnsupportedAddressingSize))]
      [] OTHER -> [tag |-> accessed.tag]

\* What Cpu::advance returns for what came back from the bus access of a load
\* or store arm of Cpu::execute: memory_bus.load(..)? or memory_bus.store(..)?
\* in execute, then self.execute(..)? in advance.
ExecutePhase(accessed) ==
    CASE accessed.tag = "Err" ->
           [tag |-> "Err",
            error |-> CpuErrorFromExecuteError(
                          ExecuteErrorFrom(UnsupportedAddressingSize))]
      [] OTHER -> [tag |-> accessed.tag]

\* What Cpu::advance returns for the word it fetched when decode fails:
\* Instruction::try_from(..)? in decode, then self.decode(..)? in advance.
DecodePhase(raw_instruction) ==
    CASE TryFrom(raw_instruction).kind = "OpcodeZero" ->
           [tag |-> "Err", error |-> CpuErrorFromDecodeError("OpcodeZero")]
      [] TryFrom(raw_instruction).kind = "panic" -> [tag |-> "panic"]
      [] OTHER -> [tag |-> "Ok"]

\* The fetch phase over a load of any explored address and width.
FetchOver ==
    /\ ~aborted /\ calls < MaxCalls
    /\ \E address \in BusAddresses, size \in BusSizes :
          LET loaded == Load(contents, address, size)
          IN  /\ bus' = [op |-> "load", address |-> address, size |-> size,
                         value |-> loaded.value, tag |-> loaded.tag]
              /\ ret' = FetchPhase(loaded)
              /\ aborted' = (loaded.tag = "panic")
    /\ called' = "fetch"
    /\ calls' = calls + 1
    /\ UNCHANGED << machine, has_reached_end, memory_dump, within, adv,
                    halted, cycles >>

\* The execute phase over a load or a store of any explored address and width.
ExecuteOver ==
    /\ ~aborted /\ calls < MaxCalls
    /\ \/ \E address \in BusAddresses, size \in BusSizes :
             LET loaded == Load(contents, address, size)
             IN  /\ bus' = [op |-> "load", address |-> address, size |-> size,
                            value |-> loaded.value, tag |-> loaded.tag]
                 /\ ret' = ExecutePhase(loaded)
                 /\ aborted' = (loaded.tag = "panic")
                 /\ UNCHANGED contents
       \/ \E address \in BusAddresses, size \in BusSizes, value \in BusValues :
             LET stored == Store(contents, address, size, value)
             IN  /\ bus' = [op |-> "store", address |-> address, size |-> size,
                            value |-> value, tag |-> stored.tag]
                 /\ ret' = ExecutePhase(stored)
                 /\ aborted' = (stored.tag = "panic")
                 /\ contents' = stored.contents
    /\ called' = "execute"
    /\ calls' = calls + 1
    /\ UNCHANGED << registers, pc, has_reached_end, memory_dump, within, adv,
                    halted, cycles >>

\* The words handed to the decode phase.
DecodeWords ==
    {U32(0), W(4660, 0), W(0, 55),
     EncI(19, 1, 0, 0, 7), EncI(3, 31, 5, 17, 2049), EncI(19, 16, 7, 31, 4095),
     EncS(35, 2, 1, 2, 4095), EncS(35, 0, 31, 16, 1040), EncS(35, 7, 0, 0, 2047),
     EncR(51, 1, 0, 2, 3, 0), EncR(51, 31, 7, 31, 31, 32),
     EncR(51, 1, 0, 2, 3, 64), EncR(51, 5, 2, 16, 9, 127)}
    \cup BusValues

\* The decode phase over a word.
DecodeOver ==
    /\ ~aborted /\ calls < MaxCalls
    /\ \E raw_instruction \in DecodeWords :
          /\ bus' = [op |-> "decode", value |-> raw_instruction,
                     instruction |-> TryFrom(raw_instruction)]
          /\ ret' = DecodePhase(raw_instruction)
          /\ aborted' = (DecodePhase(raw_instruction).tag = "panic")
    /\ called' = "decode"
    /\ calls' = calls + 1
    /\ UNCHANGED << machine, has_reached_end, memory_dump, within, adv,
                    halted, cycles >>

PhaseNext == FetchOver \/ ExecuteOver \/ DecodeOver

PhaseSpec == BusInit /\ [][PhaseNext]_vars

(***************************************************************************)
(* main.rs: the front-end.  MyApp owns the Machine and has_reached_end;    *)
(* TabViewer::editor_pane handles the three buttons.  A handler that       *)
(* panics ends the process.                                                *)
(***************************************************************************)

\* fs::read("out.bin") fails: .expect("Couldn't read assembled file") panics.
NoFile == << -1 >>

\* The files the assembler leaves in out.bin.
AppImages ==
    {Assemble(p) : p \in {WriteX0Program, StoreLoadProgram, StoreByteProgram,
                          << EncI(19, 2, 0, 0, 16) >>}}
    \cup {<< >>, ScenarioImage}

\* ButtonsEnabled without the test of has_reached_end.
ButtonsAlwaysEnabled == TRUE

\* if !*self.has_reached_end: "Step >>" and "Run until end" can be clicked.
ButtonsEnabled == ~has_reached_end

\* "Reset & Compile & Load in memory": after the assembler has run, out.bin
\* is read and a new Machine made from it; has_reached_end is cleared.
ResetCompileLoad ==
    /\ ~aborted /\ within = "none" /\ calls < MaxCalls
    /\ \E file \in AppImages \cup {NoFile} :
          IF file = NoFile
          THEN /\ aborted' = TRUE
               /\ UNCHANGED << machine, has_reached_end, memory_dump, adv,
                               ret, halted, cycles >>
          ELSE /\ registers' = MachineNew(file).cpu.registers
               /\ pc' = MachineNew(file).cpu.pc
               /\ contents' = MachineNew(file).memory
               /\ memory_dump' = file
               /\ has_reached_end' = FALSE
               /\ adv' = "none"
               /\ ret' = "none"
               /\ halted' = FALSE
               /\ cycles' = 0
               /\ aborted' = FALSE
    /\ called' = "reset_compile_load"
    /\ calls' = calls + 1
    /\ UNCHANGED << within, bus >>

\* "Step >>": one Cpu::advance; the opcode-zero error sets has_reached_end,
\* any other error is logged.
StepButton ==
    /\ ~aborted /\ within = "none" /\ calls < MaxCalls
    /\ ButtonsEnabled
    /\ \E r \in Advance(registers, pc, contents) :
          /\ Cycle(r)
          /\ ret' = IF r.out = "panic" THEN ret ELSE r.out
          /\ has_reached_end' =
                IF r.out = "Err(Decode(OpcodeZero))" THEN TRUE
                ELSE has_reached_end
    /\ called' = "step"
    /\ calls' = calls + 1
    /\ UNCHANGED << memory_dump, within, bus >>

\* "Run until end": enters Cpu::reset.
RunUntilEndButton ==
    /\ ~aborted /\ within = "none" /\ calls < MaxCalls
    /\ ButtonsEnabled
    /\ within' = "run"
    /\ called' = "run"
    /\ calls' = calls + 1
    /\ UNCHANGED << machine, has_reached_end, memory_dump, adv, ret, bus,
                    halted, aborted, cycles >>

\* MyApp::default: Machine::new(vec![]) and has_reached_end: false.
AppInit ==
    /\ registers = MachineNew(<< >>).cpu.registers
    /\ pc = MachineNew(<< >>).cpu.pc
    /\ contents = MachineNew(<< >>).memory
    /\ memory_dump = << >>
    /\ has_reached_end = FALSE
    /\ called = "new"
    /\ within = "none"
    /\ adv = "none"
    /\ ret = "none"
    /\ bus = NoAccess
    /\ halted = FALSE
    /\ aborted = FALSE
    /\ cycles = 0
    /\ calls = 0

AppNext == ResetCompileLoad \/ StepButton \/ RunUntilEndButton \/ ResetLoop

AppSpec == AppInit /\ [][AppNext]_vars

(***************************************************************************)
(* The library and the front-end together: the Machine driven through the  *)
(* front-end's buttons and through the public calls of the library.        *)
(***************************************************************************)

AnyCallerInit == Init /\ memory_dump \in AppImages

AnyCallerNext == Next \/ AppNext

AnyCallerSpec == AnyCallerInit /\ [][AnyCallerNext]_vars

(***************************************************************************)
(* The claims                                                              *)
(***************************************************************************)

OpcodeZero == "Err(Decode(OpcodeZero))"

\* C1: register 0 always reads as zero: after any sequence of advance()
\* calls on any image, a read of registers[0] between two cycles yields 0,
\* also when the instructions executed had rd = 0.
C1_RegisterZeroReadsZero == registers[0] = U32(0)

\* The image of addi x2, x0, 16 as the bus reads it: least significant byte
\* first, [0x13, 0x01, 0x00, 0x01].
AddiX2Image == LeBytes(EncI(19, 2, 0, 0, 16))

\* C2 as stated: from the image [0x00, 0x01, 0x01, 0x13], one advance()
\* returns success with x2 = 16 and the PC advanced by 4, and the second
\* advance() returns the opcode-zero signal.
C2_ScenarioAsStated ==
    /\ (memory_dump = ScenarioImage /\ cycles = 1) =>
          /\ adv = "Ok"
          /\ registers[2] = U32(16)
          /\ pc = U32(ResetVector + 4)
    /\ (memory_dump = ScenarioImage /\ cycles = 2) => adv = OpcodeZero

\* C2, amended: it is the image [0x13, 0x01, 0x00, 0x01] from which one
\* advance() returns success with x2 = 16 and the PC advanced by 4 and the
\* second advance() returns the opcode-zero signal; from the image
\* [0x00, 0x01, 0x01, 0x13] the first advance() already returns the
\* opcode-zero signal, with x2 = 0 and the PC advanced by 4.
C2_ScenarioLittleEndian ==
    /\ (memory_dump = AddiX2Image /\ cycles = 1) =>
          /\ adv = "Ok"
          /\ registers[2] = U32(16)
          /\ pc = U32(ResetVector + 4)
    /\ (memory_dump = AddiX2Image /\ cycles = 2) =>
          /\ adv = OpcodeZero
          /\ registers[2] = U32(16)
    /\ (memory_dump = ScenarioImage /\ cycles = 1) =>
          /\ adv = OpcodeZero
          /\ registers[2] = U32(0)
          /\ pc = U32(ResetVector + 4)

C2_Witness ==
    /\ memory_dump = AddiX2Image
    /\ called = "advance" /\ calls = 2 /\ cycles = 2
    /\ adv = OpcodeZero
    /\ registers[2] = U32(16)

\* The four bytes at a .. a + 3 lie in the memory: a >= RAM_BASE and
\* a - RAM_BASE + 3 < MEMORY_SIZE.
Within32(a) == ~Lt(a, RAM_BASE) /\ Lt(a, RAM_BASE + MEMORY_SIZE - 3)

\* C3: in any memory state, store(a, 32, v) at an address a >= RAM_BASE
\* whose four bytes lie within the memory succeeds, and the load(a, 32) that
\* follows it returns exactly v.
C3_StoreLoad32RoundTrip ==
    [][/\ (/\ calls' = calls + 1
           /\ bus'.op = "store" /\ bus'.size = 32
           /\ Within32(bus'.address))
          => bus'.tag = "Ok"
       /\ (/\ calls' = calls + 1
           /\ bus.op = "store" /\ bus.size = 32 /\ Within32(bus.address)
           /\ bus'.op = "load" /\ bus'.size = 32
           /\ bus'.address = bus.address)
          => (bus'.tag = "Ok" /\ bus'.value = bus.value)]_vars

C3_Witness ==
    /\ calls = 2
    /\ bus.op = "load" /\ bus.size = 32 /\ bus.tag = "Ok"
    /\ bus.address = U32(RAM_BASE + 5)
    /\ bus.value = W(4660, 22136)

\* A 12-bit immediate sign-extended to 32 bits.
SignExtended12(imm12) ==
    IF imm12 >= 2048 THEN W(Half - 1, Half - 4096 + imm12) ELSE W(0, imm12)

C5_HaltedIsTerminal == [][(halted /\ cycles' = cycles + 1) => UNCHANGED machine]_vars

\* A handler of the front-end's "Step >>" or "Run until end" starts.
FrontEndRuns == calls' = calls + 1 /\ called' \in {"step", "run"}

\* A cycle run for the front-end: by "Step >>", or inside the reset() that
\* "Run until end" called.
FrontEndCycle ==
    /\ cycles' = cycles + 1
    /\ \/ (calls' = calls + 1 /\ called' = "step")
       \/ within = "run"

\* C5, amended: the halted state is the front-end's, not the CPU's: the
\* front-end sets has_reached_end exactly when a cycle it ran returned the
\* opcode-zero signal, while has_reached_end is set it starts neither
\* advance() nor reset(), and only the load of a new Machine clears it.
C5_FrontEndHoldsHalt ==
    [][/\ FrontEndRuns => ~has_reached_end
       /\ (FrontEndCycle /\ adv' = OpcodeZero) => has_reached_end'
       /\ (~has_reached_end /\ has_reached_end')
             => (FrontEndCycle /\ adv' = OpcodeZero)
       /\ (has_reached_end /\ ~has_reached_end')
             => (called' = "reset_compile_load" /\ cycles' = 0)]_vars

C5_Witness ==
    /\ has_reached_end /\ halted
    /\ called = "run" /\ within = "none"
    /\ memory_dump = Assemble(WriteX0Program)
    /\ cycles = 3

\* C6: boot() returns success only once the PC has advanced past the end of
\* the memory image, which lies at RAM_BASE .. RAM_BASE + MEMORY_SIZE - 1.
C6_BootSucceedsPastTheImage ==
    (called = "boot" /\ within = "none" /\ ~aborted /\ ret = "Ok")
    => ~Lt(pc, RAM_BASE + MEMORY_SIZE)

\* C7 as stated: reset() does not stop on the opcode-zero signal: after a
\* cycle that returned it, reset() keeps calling advance() while the PC is
\* within the memory size.
C7_ResetGoesOnAfterOpcodeZero ==
    [][(/\ within # "none"
        /\ cycles' = cycles + 1
        /\ adv' = OpcodeZero
        /\ Lt(pc', Size(contents')))
       => within' = within]_vars

\* C7, amended: reset() stops on the opcode-zero signal: the first cycle
\* that returns it ends the loop, although the PC is still within the memory
\* size, and reset() returns it to its caller; the front-end's caller takes
\* it as the end of the program.
C7_ResetStopsOnOpcodeZero ==
    [][(/\ within # "none"
        /\ cycles' = cycles + 1
        /\ adv' = OpcodeZero)
       => /\ within' = "none"
          /\ ret' = OpcodeZero
          /\ (within = "run" => has_reached_end')]_vars

C7_Witness ==
    /\ called = "boot" /\ within = "none"
    /\ ret = OpcodeZero
    /\ memory_dump = Assemble(StoreLoadProgram)
    /\ cycles = 8
    /\ Lt(pc, Size(contents))

\* The bytes of an access of the given width at a >= RAM_BASE do not all lie
\* in the memory: a - RAM_BASE + size / 8 - 1 >= MEMORY_SIZE.
Exceeds(a, size) ==
    ~Lt(a, RAM_BASE) /\ ~Lt(a, RAM_BASE + MEMORY_SIZE - (size \div 8) + 1)

\* C8: a load or store of 8 or 32 bits whose bytes exceed the backing array
\* returns an error value, without a panic, and leaves the memory unchanged.
C8_OutOfBoundsIsAnError ==
    [][(/\ calls' = calls + 1
        /\ bus'.size \in {8, 32}
        /\ Exceeds(bus'.address, bus'.size))
       => (bus'.tag = "Err" /\ contents' = contents)]_vars

\* The opcode, funct3 and funct7 (all seven bits) of a recognised instruction.
Recognised(op, f3, f7) ==
    \/ op = 3 /\ f3 \in {0, 1, 2, 4, 5}
    \/ op = 19 /\ f3 = 0
    \/ op = 35 /\ f3 \in {0, 1, 2}
    \/ op = 51 /\ f3 = 0 /\ f7 \in {0, 32}

\* C9: a word whose opcode is not 0 and which is not a recognised
\* instruction is fatal to the advance() that fetched it: the cycle neither
\* succeeds nor runs another instruction in its place.
C9_UnrecognisedIsFatal ==
    \A op \in Opcodes \ {0}, f3 \in 0..7, f7 \in Funct7s :
        (/\ memory_dump = Assemble(<< EncR(op, 1, f3, 0, 0, f7) >>)
         /\ cycles = 1
         /\ ~Recognised(op, f3, f7))
        => (adv = "panic" /\ registers = CpuNew(ResetVector).registers)

\* C10: the cycle that runs sb (opcode 0x23, funct3 0) with a mapped
\* effective address returns success, stores the low 8 bits of rs2 in the
\* byte at that address and changes no other byte and no register.
C10_SbStoresLowByte ==
    [][LET word    == Fetch(pc, contents)
           sb      == TryFrom(word.value)
           zeroed  == [registers EXCEPT ![0] = U32(0)]
           address == WrappingAdd(zeroed[sb.rs1], sb.imm)
           index   == AsNat(WrappingSub(address, U32(RAM_BASE)))
       IN  (/\ cycles' = cycles + 1
            /\ word.tag = "Ok"
            /\ sb.kind = "S" /\ sb.funct3 = 0
            /\ ~Lt(address, RAM_BASE) /\ Lt(address, RAM_BASE + MEMORY_SIZE))
           => /\ adv' = "Ok"
              /\ contents' = [contents EXCEPT ![index + 1] = zeroed[sb.rs2].lo % 256]
              /\ registers' = zeroed]_vars

\* The address a lies in the memory: RAM_BASE <= a < RAM_BASE + MEMORY_SIZE.
Mapped(a) == ~Lt(a, RAM_BASE) /\ Lt(a, RAM_BASE + MEMORY_SIZE)

\* The byte b sign-extended from 8 to 32 bits.
SignExtended8(b) == IF b >= 128 THEN W(Half - 1, Half - 256 + b) ELSE W(0, b)

\* C11: the cycle that runs lb (opcode 0x03, funct3 0) or lbu (funct3 4)
\* with the address (rs1 + imm) mod 2^32 mapped returns success and leaves rd
\* equal to the byte b stored at that address, sign-extended by lb and
\* zero-extended by lbu, every other register and the memory unchanged; a
\* byte 0xFF gives 0xFFFFFFFF and 0x000000FF.
C11_LoadByteExtends ==
    [][LET word    == Fetch(pc, contents)
           ld      == TryFrom(word.value)
           zeroed  == [registers EXCEPT ![0] = U32(0)]
           address == WrappingAdd(zeroed[ld.rs1], ld.imm)
           b       == contents[AsNat(WrappingSub(address, U32(RAM_BASE))) + 1]
       IN  (/\ cycles' = cycles + 1
            /\ word.tag = "Ok"
            /\ ld.kind = "I" /\ ld.opcode = 3 /\ ld.funct3 \in {0, 4}
            /\ Mapped(address))
           => /\ adv' = "Ok"
              /\ registers' =
                    [zeroed EXCEPT ![ld.rd] =
                        IF ld.funct3 = 0 THEN SignExtended8(b) ELSE W(0, b)]
              /\ (b = 255 /\ ld.funct3 = 0) => registers'[ld.rd] = AllOnes
              /\ (b = 255 /\ ld.funct3 = 4) => registers'[ld.rd] = U32(255)
              /\ contents' = contents]_vars

\* lb and lbu of the byte 0x93 at address 128, reached as 0xFFFFFFFF + 129,
\* lb of the byte 0x03 at address 132 and of the last byte of the memory,
\* lbu and lb of the byte 0xFF at address 131.
C11_Witness ==
    /\ memory_dump = Assemble(LoadByteProgram)
    /\ cycles = 9 /\ adv = "Ok"
    /\ registers[1] = AllOnes
    /\ registers[2] = W(65535, 65427)
    /\ registers[3] = U32(147)
    /\ registers[4] = U32(3)
    /\ registers[5] = U32(0)
    /\ registers[7] = U32(255)
    /\ registers[8] = AllOnes

\* Byte i (0 the least significant) of the word v.
ByteOf(v, i) ==
    CASE i = 0 -> v.lo % 256
      [] i = 1 -> v.lo \div 256
      [] i = 2 -> v.hi % 256
      [] i = 3 -> v.hi \div 256

\* C12: the cycle that runs sw (opcode 0x23, funct3 2) with register value
\* v and the four bytes at the address a >= RAM_BASE in the memory returns
\* success and writes byte i of v, least significant first, at index
\* a - RAM_BASE + i, changing no other byte; 0x12345678 stored at RAM_BASE
\* leaves [0x78, 0x56, 0x34, 0x12] at indices 0..3; lw and the fetch assemble
\* four bytes in the same order: lw leaves rd = b0 + 2^8 b1 + 2^16 b2 + 2^24 b3
\* and the opcode the decoder sees is the low seven bits of the byte at PC.
C12_SwIsLittleEndian ==
    [][LET word    == Fetch(pc, contents)
           ins     == TryFrom(word.value)
           zeroed  == [registers EXCEPT ![0] = U32(0)]
           address == WrappingAdd(zeroed[ins.rs1], ins.imm)
           index   == AsNat(WrappingSub(address, U32(RAM_BASE)))
           v       == zeroed[ins.rs2]
       IN  /\ (/\ cycles' = cycles + 1
               /\ word.tag = "Ok"
               /\ ins.kind = "S" /\ ins.funct3 = 2
               /\ Within32(address))
              => /\ adv' = "Ok"
                 /\ contents' =
                       [k \in 1..Len(contents) |->
                           IF k - 1 \in index..(index + 3)
                           THEN ByteOf(v, k - 1 - index) ELSE contents[k]]
                 /\ registers' = zeroed
                 /\ (v = W(4660, 22136) /\ address = U32(RAM_BASE))
                       => SubSeq(contents', 1, 4) = << 120, 86, 52, 18 >>
           /\ (/\ cycles' = cycles + 1
               /\ word.tag = "Ok"
               /\ ins.kind = "I" /\ ins.opcode = 3 /\ ins.funct3 = 2
               /\ Within32(address))
              => /\ adv' = "Ok"
                 /\ registers' =
                       [zeroed EXCEPT ![ins.rd] =
                           W(contents[index + 4] * 256 + contents[index + 3],
                             contents[index + 2] * 256 + contents[index + 1])]
           /\ (cycles' = cycles + 1 /\ Within32(pc) /\ adv' # "panic")
              => (adv' = OpcodeZero
                    <=> contents[AsNat(pc) - RAM_BASE + 1] % 128 = 0)]_vars

\* 0x12345678 stored by sw at RAM_BASE and at the unaligned address 389, and
\* read back by lw.
C12_Witness ==
    /\ memory_dump = Assemble(StoreWordProgram)
    /\ cycles = 31 /\ adv = "Ok"
    /\ registers[1] = W(4660, 22136)
    /\ SubSeq(contents, 1, 4) = << 120, 86, 52, 18 >>
    /\ SubSeq(contents, 262, 265) = << 120, 86, 52, 18 >>
    /\ registers[2] = W(4660, 22136)
    /\ registers[3] = W(4660, 22136)

\* Bit i of the word w, and the number in its bits [top:bottom], as the
\* RISC-V instruction formats number them.
Bit(w, i) ==
    IF i < 16 THEN (w.lo \div Pow2(i)) % 2 ELSE (w.hi \div Pow2(i - 16)) % 2

RECURSIVE Bits(_, _, _)
Bits(w, top, bottom) ==
    IF top < bottom THEN 0
    ELSE Bit(w, bottom) + 2 * Bits(w, top, bottom + 1)

\* (x + y) mod 2^32 and (x - y) mod 2^32
Sum32(x, y) ==
    LET carry == IF x.lo + y.lo >= Half THEN 1 ELSE 0
        hi    == x.hi + y.hi + carry
    IN  W(IF hi >= Half THEN hi - Half ELSE hi, x.lo + y.lo - carry * Half)

Diff32(x, y) ==
    LET borrow == IF x.lo < y.lo THEN 1 ELSE 0
        hi     == x.hi - y.hi - borrow
    IN  W(IF hi < 0 THEN hi + Half ELSE hi, x.lo - y.lo + borrow * Half)

\* C13: the cycle that runs add (opcode 0x33, funct3 0, funct7 0x00), sub
\* (funct7 0x20) or addi (opcode 0x13, funct3 0) on register values x and y
\* returns success and leaves rd = (x + y) mod 2^32, (x - y) mod 2^32 and
\* (x + imm) mod 2^32, every other register unchanged; 0xFFFFFFFF + 1 is 0.
C13_AluWraps ==
    [][LET word   == Fetch(pc, contents).value
           zeroed == [registers EXCEPT ![0] = U32(0)]
           rd     == Bits(word, 11, 7)
           x      == zeroed[Bits(word, 19, 15)]
           y      == zeroed[Bits(word, 24, 20)]
           imm    == SignExtended12(Bits(word, 31, 20))
           opcode == Bits(word, 6, 0)
           funct3 == Bits(word, 14, 12)
           funct7 == Bits(word, 31, 25)
       IN  (cycles' = cycles + 1 /\ Within32(pc) /\ funct3 = 0)
           => /\ (opcode = 51 /\ funct7 = 0)
                 => /\ adv' = "Ok"
                    /\ registers' = [zeroed EXCEPT ![rd] = Sum32(x, y)]
                    /\ (x = AllOnes /\ y = U32(1)) => registers'[rd] = U32(0)
              /\ (opcode = 51 /\ funct7 = 32)
                 => /\ adv' = "Ok"
                    /\ registers' = [zeroed EXCEPT ![rd] = Diff32(x, y)]
              /\ opcode = 19
                 => /\ adv' = "Ok"
                    /\ registers' = [zeroed EXCEPT ![rd] = Sum32(x, imm)]]_vars

\* 0xFFFFFFFF + 1 = 0 by add and by addi, 0 - 1 = 0xFFFFFFFF and
\* 0 - 0xFFFFFFFF = 1 by sub, 0xFFFFFFFF + 0xFFFFFFFF = 0xFFFFFFFE.
C13_Witness ==
    /\ memory_dump = Assemble(ArithmeticProgram)
    /\ cycles = 9 /\ adv = "Ok"
    /\ registers[1] = AllOnes /\ registers[2] = U32(1)
    /\ registers[3] = U32(0)
    /\ registers[4] = AllOnes
    /\ registers[5] = U32(0)
    /\ registers[7] = W(65535, 65534)
    /\ registers[8] = U32(2)
    /\ registers[9] = W(65535, 65534)
    /\ registers[10] = U32(1)

\* What advance() returns when it returns an error.
Errors == {"Err(Fetch)", OpcodeZero, "Err(Execute)"}

\* C14: an advance() that returns an error returned at the phase that
\* failed and ran no later phase: it changed no register x1..x31 and no
\* memory byte; an error of fetch leaves the PC where it was, an error of
\* decode or execute leaves PC = old PC + 4 and is the error of the word at
\* the old PC: the call did not skip it and run the next word.
C14_ErrorEndsTheCycle ==
    [][(cycles' = cycles + 1 /\ adv' \in Errors)
       => /\ \A i \in 1..31 : registers'[i] = registers[i]
          /\ contents' = contents
          /\ adv' = "Err(Fetch)" => pc' = pc
          /\ adv' # "Err(Fetch)" => (Within32(pc) /\ pc' = Sum32(pc, U32(4)))
          /\ adv' = OpcodeZero => Bits(Fetch(pc, contents).value, 6, 0) = 0
          /\ adv' = "Err(Execute)"
                => Bits(Fetch(pc, contents).value, 6, 0) \in {3, 35}]_vars

\* advance() has returned the opcode-zero error for the zero word at the
\* reset vector: x1 is still 0 and the PC is at the addi that follows.
C14_Witness ==
    /\ memory_dump = Assemble(ZeroThenAddiProgram)
    /\ called = "advance" /\ cycles = 1 /\ adv = OpcodeZero
    /\ registers[1] = U32(0)
    /\ pc = U32(ResetVector + 4)
    /\ contents = MemoryNew(memory_dump)

\* CpuError::Fetch(FetchError::Memory(e)), CpuError::Execute(
\* ExecuteError::Memory(e)) and CpuError::Decode(DecodeError::OpcodeZero).
FetchMemoryError(e) == [variant |-> "Fetch", of |-> [variant |-> "Memory", of |-> e]]
ExecuteMemoryError(e) == [variant |-> "Execute", of |-> [variant |-> "Memory", of |-> e]]
DecodeOpcodeZero == [variant |-> "Decode", of |-> "OpcodeZero"]

\* C15: a memory error of the bus access of a load or store instruction
\* comes back from advance() as CpuError::Execute, a memory error of the
\* access of fetch as CpuError::Fetch, and the opcode-zero signal always as
\* CpuError::Decode: the phase of a returned error is the phase that failed.
C15_ErrorsCarryTheirPhase ==
    /\ (called = "fetch" /\ bus.tag = "Err")
          => ret = [tag |-> "Err",
                    error |-> FetchMemoryError(UnsupportedAddressingSize)]
    /\ (called = "execute" /\ bus.tag = "Err")
          => ret = [tag |-> "Err",
                    error |-> ExecuteMemoryError(UnsupportedAddressingSize)]
    /\ (called = "decode" /\ Bits(bus.value, 6, 0) = 0)
          => ret = [tag |-> "Err", error |-> DecodeOpcodeZero]
    /\ (called \in {"fetch", "execute", "decode"} /\ ret.tag = "Err")
          => /\ ret.error.variant = "Fetch" <=> called = "fetch"
             /\ ret.error.variant = "Execute" <=> called = "execute"
             /\ ret.error.variant = "Decode" <=> called = "decode"
             /\ called = "decode" => Bits(bus.value, 6, 0) = 0
             /\ called # "decode" => bus.size \notin {8, 16, 32, 64}

\* A store of an unsupported width in the execute phase has come back as an
\* execute-phase error, the memory left as it was.
C15_Witness ==
    /\ called = "execute" /\ calls = 3
    /\ bus.op = "store" /\ bus.size = 24 /\ bus.tag = "Err"
    /\ ret.tag = "Err" /\ ret.error.variant = "Execute"
    /\ contents = MemoryNew(memory_dump)

\* C16: a load or a store of any width at an address below RAM_BASE fails:
\* the load returns no value, the store changes no byte of the memory, and
\* the backing array is neither read nor written.
C16_ReservedRegionFails ==
    [][(calls' = calls + 1 /\ Lt(bus'.address, RAM_BASE))
       => /\ bus'.tag \in {"Err", "panic"}
          /\ contents' = contents]_vars

\* A 32-bit store of 0xFFFFFFFF at RAM_BASE - 1 into the all-zero memory
\* has failed and left the memory all zero.
C16_Witness ==
    /\ bus.op = "store" /\ bus.address = U32(RAM_BASE - 1) /\ bus.size = 32
    /\ bus.value = AllOnes
    /\ bus.tag = "panic" /\ aborted
    /\ memory_dump = << >>
    /\ contents = MemoryNew(<< >>)

\* The widths the bus knows.
Widths == {8, 16, 32, 64}

\* C17 as stated: a load or a store of a width outside {8, 16, 32, 64}, at
\* any address, returns the unsupported-addressing-size error and leaves the
\* memory unchanged.
C17_UnsupportedWidthIsReturned ==
    [][(calls' = calls + 1 /\ bus'.size \notin Widths)
       => (bus'.tag = "Err" /\ contents' = contents)]_vars

\* C17, amended: at an address >= RAM_BASE a load or a store of a width
\* outside {8, 16, 32, 64} returns the unsupported-addressing-size error; at
\* an address below RAM_BASE it aborts like an access of any width there; in
\* both cases the memory is unchanged and the backing array is not accessed
\* with a rounded width.
C17_UnsupportedWidthAboveBase ==
    [][(calls' = calls + 1 /\ bus'.size \notin Widths)
       => /\ ~Lt(bus'.address, RAM_BASE) => bus'.tag = "Err"
          /\ Lt(bus'.address, RAM_BASE) => bus'.tag = "panic"
          /\ contents' = contents]_vars

\* A 24-bit store at 0xFFFFFFFF, far beyond the memory, has returned the
\* error and left the memory as it was.
C17_Witness ==
    /\ bus.op = "store" /\ bus.size = 24 /\ bus.address = AllOnes
    /\ bus.tag = "Err" /\ ~aborted
    /\ contents = MemoryNew(memory_dump)
    /\ memory_dump = FullImage

\* C18: Machine::new on an image of any length n yields all 32 registers
\* zero, the PC at the reset vector RAM_BASE and a memory of exactly
\* MEMORY_SIZE bytes, the first min(n, MEMORY_SIZE) those of the image and
\* the rest zero; after any advance() and boot() calls the memory still has
\* exactly MEMORY_SIZE bytes.
C18_MachineAsConstructed ==
    /\ Len(contents) = MEMORY_SIZE
    /\ cycles = 0
          => /\ \A i \in 0..31 : registers[i] = U32(0)
             /\ pc = U32(RAM_BASE)
             /\ \A i \in 1..MEMORY_SIZE :
                   contents[i] = IF i <= Len(memory_dump) THEN memory_dump[i]
                                 ELSE 0

\* A Machine made from an image of MEMORY_SIZE + 8 bytes, after two
\* advance() calls.
C18_Witness ==
    /\ Len(memory_dump) = MEMORY_SIZE + 8
    /\ called = "advance" /\ calls = 2 /\ cycles = 2
    /\ Len(contents) = MEMORY_SIZE
    /\ SubSeq(contents, 1, 4) = SubSeq(memory_dump, 1, 4)

\* C19: for a word of a supported opcode the decoder yields the fields of
\* the RISC-V layout: opcode = bits [6:0], rd = [11:7], funct3 = [14:12],
\* rs1 = [19:15], rs2 = [24:20], funct7 = all of [31:25], the I-type
\* immediate = [31:20] sign-extended, the S-type immediate = {[31:25], [11:7]}
\* sign-extended; every register index is in 0..31.
C19_DecoderFollowsTheLayout ==
    LET raw == bus.value
        ins == bus.instruction
    IN  (called = "decode" /\ Bits(raw, 6, 0) \in {3, 19, 35, 51})
        => /\ ins.kind = CASE Bits(raw, 6, 0) = 35 -> "S"
                            [] Bits(raw, 6, 0) = 51 -> "R"
                            [] OTHER -> "I"
           /\ ins.opcode = Bits(raw, 6, 0)
           /\ ins.funct3 = Bits(raw, 14, 12)
           /\ ins.rs1 = Bits(raw, 19, 15) /\ ins.rs1 \in 0..31
           /\ ins.kind \in {"I", "R"}
                 => (ins.rd = Bits(raw, 11, 7) /\ ins.rd \in 0..31)
           /\ ins.kind \in {"S", "R"}
                 => (ins.rs2 = Bits(raw, 24, 20) /\ ins.rs2 \in 0..31)
           /\ ins.kind = "I" => ins.imm = SignExtended12(Bits(raw, 31, 20))
           /\ ins.kind = "S"
                 => ins.imm = SignExtended12(Bits(raw, 31, 25) * 32
                                              + Bits(raw, 11, 7))
           /\ ins.kind = "R" => ins.funct7 = Bits(raw, 31, 25)

\* C20: advance() adds exactly 4 to the PC once the fetch has succeeded,
\* whatever decode and execute then do: a cycle that returns success or the
\* opcode-zero signal leaves PC = old PC + 4, a cycle whose fetch fails
\* leaves the PC unchanged, and nothing else changes the PC.
C20_PcStepsByFour ==
    [][/\ cycles' = cycles + 1
          => /\ Within32(pc) => pc' = Sum32(pc, U32(4))
             /\ adv' \in {"Ok", OpcodeZero}
                   => (Within32(pc) /\ pc' = Sum32(pc, U32(4)))
             /\ ~Within32(pc) => (pc' = pc /\ adv' \in {"panic", "Err(Fetch)"})
       /\ cycles' = cycles => pc' = pc]_vars

\* From the reset vector at the last word of the full memory: the first
\* advance() ran addi x1, x1, 1 and left the PC at the end of the memory,
\* where the fetch of the second advance() failed and left it.
C20_Witness ==
    /\ memory_dump = FullImage
    /\ called = "advance" /\ calls = 2 /\ cycles = 2
    /\ registers[1] = U32(1)
    /\ adv = "panic"
    /\ pc = U32(RAM_BASE + MEMORY_SIZE)

\* C21: in any advance() the memory changes only when the instruction is a
\* store, and then only within the four bytes at index a - RAM_BASE ..
\* a - RAM_BASE + 3; a load or an ALU instruction changes no register but
\* rd, and a store changes no register.
C21_CycleFrame ==
    [][LET word    == Fetch(pc, contents).value
           opcode  == Bits(word, 6, 0)
           rd      == Bits(word, 11, 7)
           offset  == SignExtended12(Bits(word, 31, 25) * 32 + Bits(word, 11, 7))
           base    == IF Bits(word, 19, 15) = 0 THEN U32(0)
                      ELSE registers[Bits(word, 19, 15)]
           index   == Diff32(Sum32(base, offset), U32(RAM_BASE))
           Stored  == {k \in 1..Len(contents) :
                          /\ ~Lt(U32(k - 1), AsNat(index))
                          /\ Lt(U32(k - 1), AsNat(index) + 4)}
       IN  cycles' = cycles + 1
           => /\ ~Within32(pc) => (contents' = contents /\ registers' = registers)
              /\ (Within32(pc) /\ opcode # 35) => contents' = contents
              /\ (Within32(pc) /\ opcode = 35)
                    => /\ registers' = registers
                       /\ contents' # contents
                             => /\ Lt(index, MEMORY_SIZE)
                                /\ \A k \in 1..Len(contents) \ Stored :
                                      contents'[k] = contents[k]
              /\ (Within32(pc) /\ opcode \in {3, 19, 51})
                    => \A i \in (0..31) \ {rd} :
                          registers'[i] = registers[i]]_vars

\* The cycles a run from the reset vector to the memory size can take.
MaxBootCycles == (MEMORY_SIZE - RAM_BASE) \div 4

\* The distance of the PC from the memory size, where the loop of reset()
\* stops.
Remaining(p) == MEMORY_SIZE - AsNat(p)

\* C22: boot() terminates on every image: from PC = RAM_BASE every cycle that
\* reaches decode adds 4 to the PC and nothing lowers it, so the PC is
\* RAM_BASE plus four times the cycles run; every pass of the loop of reset()
\* returns (success or the error), aborts, or runs one of at most
\* (MEMORY_SIZE - RAM_BASE) / 4 cycles and brings the PC nearer to the memory
\* size, so the loop cannot go on forever.
C22_BootTerminates ==
    [][/\ (cycles' = cycles + 1 /\ ~aborted') => pc' = Sum32(pc, U32(4))
       /\ ~Lt(pc', AsNat(pc))
       /\ ~aborted' => pc' = U32(RAM_BASE + 4 * cycles')
       /\ within = "boot"
             => \/ aborted'
                \/ within' = "none" /\ ret' \in {"Ok", OpcodeZero}
                \/ /\ within' = "boot"
                   /\ cycles' = cycles + 1 /\ cycles' <= MaxBootCycles
                   /\ Remaining(pc') < Remaining(pc)
                   /\ Remaining(pc') >= 0]_vars

\* boot() on the full image has returned success after exactly
\* (MEMORY_SIZE - RAM_BASE) / 4 cycles.
C22_Witness ==
    /\ memory_dump = FullImage
    /\ called = "boot" /\ calls = 1 /\ within = "none"
    /\ ret = "Ok"
    /\ cycles = MaxBootCycles
    /\ registers[1] = U32(MaxBootCycles)

\* C23: while boot() runs on a freshly constructed Machine, and when it has
\* ended, the PC is a multiple of 4 with RAM_BASE <= PC <= MEMORY_SIZE; the
\* fetch of every cycle of the loop reads the four bytes at indices
\* PC - RAM_BASE .. PC - RAM_BASE + 3, all inside the backing array, so no
\* fetch of boot() fails: a cycle that aborted did so after its fetch.
C23_BootPcStaysInside ==
    (called = "boot" /\ calls = 1)
    => /\ pc.lo % 4 = 0
       /\ ~Lt(pc, RAM_BASE) /\ ~Lt(U32(MEMORY_SIZE), AsNat(pc))
       /\ (within = "boot" /\ ~aborted /\ ResetCondition(pc, contents))
             => /\ AsNat(pc) - RAM_BASE >= 0
                /\ AsNat(pc) - RAM_BASE + 3 < Len(contents)
                /\ Fetch(pc, contents).tag = "Ok"
                /\ Fetch(pc, contents).value =
                      W(contents[AsNat(pc) - RAM_BASE + 4] * 256
                          + contents[AsNat(pc) - RAM_BASE + 3],
                        contents[AsNat(pc) - RAM_BASE + 2] * 256
                          + contents[AsNat(pc) - RAM_BASE + 1])
       /\ aborted => pc = U32(RAM_BASE + 4 * cycles)

\* boot() on the full image is about to fetch its last word, at
\* MEMORY_SIZE - 4.
C23_Witness ==
    /\ memory_dump = FullImage
    /\ called = "boot" /\ calls = 1 /\ within = "boot"
    /\ pc = U32(MEMORY_SIZE - 4)
    /\ cycles = MaxBootCycles - 1

\* C24: the only error advance() and boot() return is the opcode-zero
\* signal, never an error of fetch or of execute; every other failure of a
\* cycle is an abort: a fetch below RAM_BASE or outside the memory, a word
\* of an unsupported opcode or funct, a load or store below RAM_BASE or
\* outside the memory, or of a width the bus has not implemented.
C24_OnlyOpcodeZeroIsReturned ==
    [][LET word    == Fetch(pc, contents).value
           opcode  == Bits(word, 6, 0)
           funct3  == Bits(word, 14, 12)
           base    == IF Bits(word, 19, 15) = 0 THEN U32(0)
                      ELSE registers[Bits(word, 19, 15)]
           offset  == IF opcode = 35
                      THEN SignExtended12(Bits(word, 31, 25) * 32
                                           + Bits(word, 11, 7))
                      ELSE SignExtended12(Bits(word, 31, 20))
           address == Sum32(base, offset)
           bytes   == IF funct3 \in {0, 4} THEN 1
                      ELSE IF funct3 \in {1, 5} THEN 2 ELSE 4
           access  == opcode \in {3, 35} /\ Recognised(opcode, funct3, 0)
       IN  cycles' = cycles + 1
           => /\ adv' \in {"Ok", OpcodeZero, "panic"}
              /\ ret' \in {"none", "Ok", OpcodeZero}
              /\ ~Within32(pc) => adv' = "panic"
              /\ (/\ Within32(pc) /\ opcode # 0
                  /\ ~Recognised(opcode, funct3, Bits(word, 31, 25)))
                    => adv' = "panic"
              /\ (Within32(pc) /\ access /\ Lt(address, RAM_BASE))
                    => adv' = "panic"
              /\ (/\ Within32(pc) /\ access
                  /\ ~Lt(address, RAM_BASE + MEMORY_SIZE - bytes + 1))
                    => adv' = "panic"
              /\ (Within32(pc) /\ access /\ bytes = 2) => adv' = "panic"
              /\ (Within32(pc) /\ opcode = 35 /\ funct3 = 0)
                    => adv' = "panic"]_vars

=============================================================================
